---- MODULE Spec2Model ----
(***************************************************************************)
(* createTypedEnv: a Proxy over an environment store (process.env or the   *)
(* object passed as the `env` option) with eager and lazy access, fallback *)
(* values and logging.  The model follows the createTypedEnv source with    *)
(* getFallbackValue (the latest revision of src/env.ts).                    *)
(*                                                                         *)
(* JavaScript values are tagged records: typeof v is v.type.  Objects       *)
(* inherit the properties of Object.prototype, so `name in obj` and         *)
(* obj[name] find the inherited names too.  A store is an object: the       *)
(* strings it holds itself (own), the strings of a prototype the caller     *)
(* gave it (proto) and its kind, the exotic process.env or a plain object.  *)
(***************************************************************************)
EXTENDS Integers, Sequences, FiniteSets, TLC

VARIABLES procEnv, custEnv, opts, held, last

vars == <<procEnv, custEnv, opts, held, last>>

(***************************************************************************)
(* JavaScript values                                                       *)
(***************************************************************************)
Undef == [type |-> "undefined"]
Null == [type |-> "object", null |-> TRUE]
Str(s) == [type |-> "string", s |-> s]
Num(n) == [type |-> "number", n |-> n]
Bool(b) == [type |-> "boolean", b |-> b]
Fn(id) == [type |-> "function", fn |-> id]
\* A plain object { ... }: its own properties; its prototype is Object.prototype.
Obj(props) == [type |-> "object", props |-> props]
\* Object.prototype itself.
ObjectPrototype == [type |-> "object", builtin |-> "Object.prototype"]
\* new String(s), what Object(s) returns for a string.
StrObj(s) == [type |-> "object", boxed |-> s]
\* The prototype of process.env: an object of the runtime that is not
\* Object.prototype; it holds a constructor of its own and inherits the rest
\* from Object.prototype.
ProcessEnvPrototype == [type |-> "object", builtin |-> "process.env prototype"]

\* typeof v
typeof(v) == v.type

\* ToBoolean(v): undefined, null, false, "" and 0 are falsy; every object and
\* function is truthy.
Truthy(v) ==
  CASE v.type = "undefined" -> FALSE
    [] v.type = "boolean" -> v.b
    [] v.type = "string" -> v.s # ""
    [] v.type = "number" -> v.n # 0
    [] v = Null -> FALSE
    [] OTHER -> TRUE

\* The names every object inherits from Object.prototype.
ProtoNames ==
  { "constructor", "__defineGetter__", "__defineSetter__", "hasOwnProperty",
    "__lookupGetter__", "__lookupSetter__", "isPrototypeOf",
    "propertyIsEnumerable", "toString", "valueOf", "__proto__",
    "toLocaleString" }

\* The own properties of an object of the model.
OwnProps(obj) ==
  IF "props" \in DOMAIN obj THEN obj.props
  ELSE IF obj = ProcessEnvPrototype
    THEN [constructor |-> Fn("process.env.constructor")]
  ELSE <<>>

\* What an object inherits at a name of Object.prototype: the built-in
\* function, or at __proto__ the prototype of the object.
Inherited(obj, name) ==
  IF name = "__proto__"
    THEN IF obj = ObjectPrototype THEN Null ELSE ObjectPrototype
    ELSE Fn(name)

\* name in obj: own or inherited
HasProp(obj, name) == name \in DOMAIN OwnProps(obj) \/ name \in ProtoNames

\* obj[name]: the own property, else the inherited one, else undefined
GetProp(obj, name) ==
  IF name \in DOMAIN OwnProps(obj) THEN OwnProps(obj)[name]
  ELSE IF name \in ProtoNames THEN Inherited(obj, name)
  ELSE Undef

Return(v) == [kind |-> "return", val |-> v]
Throw(e) == [kind |-> "throw", err |-> e]

(***************************************************************************)
(* Domains of the inputs                                                   *)
(***************************************************************************)
ModeKey == "NODE_ENV"
\* The keys read and written through every handle: an ordinary name, the mode
\* key and a name that every object inherits.
Keys == {"A", ModeKey, "__proto__"}
\* With the empty name, which process.env does not store.
AllKeys == Keys \cup {""}

\* The names process.env stores nothing at: the empty name and every name that
\* holds an '='.  An assignment to one of them is dropped without an error.
Refused(key) ==
  \/ key = ""
  \/ \E i \in 1..Len(key) : SubSeq(key, i, i) = "="
Strs == {"", "v"}
Modes == {"development", "production"}
\* What NODE_ENV holds in a store at the start: a string, a mode, or a string
\* that is also a name of Object.prototype.
ModeValues == Strs \cup Modes \cup {"constructor"}
Handles == {1, 2}

\* A plain object used as a store, and process.env.
PlainStore(own) == [kind |-> "plain", own |-> own, proto |-> <<>>]
ProcessStore(own) == [kind |-> "process", own |-> own, proto |-> <<>>]

\* The maps from some of the keys K to strings; NODE_ENV may hold any of ModeValues.
OwnMaps(K) ==
  UNION { { f \in [D -> ModeValues] :
              \A k \in D : k # ModeKey => f[k] \in Strs } : D \in SUBSET K }

\* process.env with any of the keys set that it stores.
Stores == { ProcessStore(f) : f \in OwnMaps({ k \in Keys : ~Refused(k) }) }

\* Plain objects that hold __proto__ as a key of their own, as
\* JSON.parse('{"__proto__":"v"}') and { ["__proto__"]: "v" } build them.
ParsedStores ==
  { PlainStore(f) : f \in { g \in OwnMaps({"A", "__proto__"}) :
                              "__proto__" \in DOMAIN g } }

\* Plain objects built over a prototype of the caller, Object.create(p): p holds
\* the key A, or holds __proto__ as a key of its own.
InheritingStores ==
  { [kind |-> "plain", own |-> <<>>, proto |-> [k \in {key} |-> "inherited"]] :
      key \in {"A", "__proto__"} }

\* The object literals passed as the env option: their prototype is
\* Object.prototype (proto is empty) and __proto__ is no key of theirs.
PlainStores == { PlainStore(f) : f \in OwnMaps({"A", ModeKey}) }

\* process.env as far as a handle over another store reads it: the mode.
ModeStores ==
  { ProcessStore(<<>>) } \cup { ProcessStore([k \in {ModeKey} |-> m]) : m \in Modes }

\* fn(key) for the functions a fallback can be: the functions passed as
\* options, (key) => `${key}_fallback` and (key) => '', and the functions of
\* Object.prototype called with no receiver.
FnApply(id, key) ==
  CASE id = "suffix" -> Return(Str(key \o "_fallback"))
    [] id = "empty" -> Return(Str(""))
    [] id = "constructor" -> Return(StrObj(key))
    [] id = "toString" -> Return(Str("[object Undefined]"))
    [] id = "isPrototypeOf" -> Return(Bool(FALSE))
    [] OTHER -> Throw("TypeError")

Fallbacks ==
  { Undef,
    Str(""),
    Str("fallback_value"),
    Obj([A |-> Str("object_fallback")]),
    Obj([A |-> Str("")]),
    Obj([A |-> Str("object_fallback"), toString |-> Str("own_toString")]),
    Fn("suffix"),
    Fn("empty"),
    Obj([env |-> Obj([development |-> Str("dev_fallback"),
                      production |-> Str("prod_fallback")])]),
    Obj([env |-> Obj([development |-> Obj([A |-> Str("dev_A")]),
                      production |-> Fn("suffix")])]) }

Logs ==
  { Undef, Bool(FALSE), Bool(TRUE),
    Obj([development |-> Bool(TRUE), production |-> Bool(FALSE)]) }

Options == [env : {"process", "custom"}, lazy : BOOLEAN,
            fallback : Fallbacks, log : Logs]

\* The options of the handles that are driven with all the keys, the empty
\* name included: handles over process.env of either discipline, without
\* fallback or with a literal one, logging off.
WideOptions == [env : {"process"}, lazy : BOOLEAN,
                fallback : {Undef, Str("fallback_value")}, log : {Bool(FALSE)}]

\* The options a parsed object or an object with a prototype of the caller is
\* wrapped with: either discipline, without fallback or with a literal one, no
\* logging.
ParsedOptions == [env : {"custom"}, lazy : BOOLEAN,
                  fallback : {Undef, Str("fallback_value")}, log : {Undef}]

NoHandle == [env |-> "none"]

\* The values a caller assigns or passes to an accessor.
StrArgs == { Str(s) : s \in Strs }
SetArgs == StrArgs \cup { Num(123) }
CallArgs == StrArgs \cup { Undef }

(***************************************************************************)
(* createTypedEnv: o is the options record the functions close over         *)
(***************************************************************************)
\* const { lazy, fallback, log, env = process.env } = options ?? {}
Env(o) == IF o.env = "custom" THEN custEnv ELSE procEnv

\* key in store: own, inherited from the store's prototype or from Object.prototype
In(store, key) ==
  \/ key \in DOMAIN store.own
  \/ key \in DOMAIN store.proto
  \/ key \in ProtoNames

\* store[key] read as a JavaScript value.  The prototype of a plain object is
\* Object.prototype or the object the caller gave it; the prototype of
\* process.env is an object of its own, with its own constructor.
Read(store, key) ==
  IF key \in DOMAIN store.own THEN Str(store.own[key])
  ELSE IF key \in DOMAIN store.proto THEN Str(store.proto[key])
  ELSE IF key = "__proto__"
    THEN IF store.proto # <<>>
           THEN Obj([k \in DOMAIN store.proto |-> Str(store.proto[k])])
         ELSE IF store.kind = "process" THEN ProcessEnvPrototype
         ELSE ObjectPrototype
  ELSE IF key = "constructor" /\ store.kind = "process" /\ store.proto = <<>>
    THEN GetProp(ProcessEnvPrototype, key)
  ELSE IF key \in ProtoNames THEN Fn(key)
  ELSE Undef

\* Mutant of Write: the store is left holding the written key alone.
Write_DropOthers(store, key, s) == [store EXCEPT !.own = [k \in {key} |-> s]]

\* store[key] = value.  process.env drops the names it refuses and stores every
\* other, __proto__ included.  On a plain object the key __proto__ is the setter
\* inherited from Object.prototype, which ignores a string, unless the object
\* or its prototype holds __proto__ as a key of its own: then the assignment
\* sets an own key like any other.
Write(store, key, s) ==
  IF store.kind = "process" /\ Refused(key) THEN store
  ELSE IF /\ key = "__proto__"
          /\ store.kind = "plain"
          /\ key \notin DOMAIN store.own
          /\ key \notin DOMAIN store.proto
    THEN store
  ELSE [store EXCEPT !.own = [k \in DOMAIN store.own \cup {key} |->
                                IF k = key THEN s ELSE store.own[k]]]

\* The property name a value indexes with: obj[undefined] is obj["undefined"].
PropName(v) == IF v.type = "string" THEN v.s ELSE "undefined"

\* String(value), `${value}`, for the values of the model.
StringOf(v) ==
  CASE v.type = "string" -> v.s
    [] v.type = "number" -> "123"
    [] v.type = "object" /\ "boxed" \in DOMAIN v -> v.boxed
    [] v.type = "object" -> "[object Object]"
    [] OTHER -> "undefined"

\* logger(message): the messages written to console.warn
logger(o, message) ==
  LET log == o.log
      nodeEnv == Read(Env(o), ModeKey)
  IN IF ~Truthy(log) THEN <<>>
     ELSE IF typeof(log) = "boolean" THEN <<message>>
     ELSE IF /\ typeof(log) = "object"
             /\ Truthy(nodeEnv)
             /\ HasProp(log, PropName(nodeEnv))
             /\ Truthy(GetProp(log, PropName(nodeEnv)))
          THEN <<message>>
     ELSE <<>>

\* What a function of the model does when called with no argument as a
\* method of an object: it returns a primitive, returns an object, or throws;
\* a value that is no function cannot be called.
MethodCall(m) ==
  IF typeof(m) # "function" THEN "none"
  ELSE CASE m.fn \in { "suffix", "empty", "toString", "hasOwnProperty",
                       "isPrototypeOf", "propertyIsEnumerable",
                       "__lookupGetter__", "__lookupSetter__" } -> "primitive"
         [] m.fn \in { "valueOf", "constructor" } -> "object"
         [] OTHER -> "throw"

\* `${value}` converts: a primitive always; an object when its toString, or
\* else its valueOf, is a function that returns a primitive.  Otherwise the
\* template literal throws a TypeError.
CanConvertToString(v) ==
  \/ typeof(v) # "object"
  \/ v = Null
  \/ MethodCall(GetProp(v, "toString")) = "primitive"
  \/ /\ MethodCall(GetProp(v, "toString")) \in {"none", "object"}
     /\ MethodCall(GetProp(v, "valueOf")) = "primitive"

\* getFallbackValue(fallback, key): the value returned or the error thrown.
\* `'env' in null` and null[...] throw a TypeError, and so does the message of
\* the last throw when the fallback does not convert to a string.
RECURSIVE getFallbackValue(_, _)
getFallbackValue(fallback, key) ==
  IF typeof(fallback) = "string" THEN Return(fallback)
  ELSE IF typeof(fallback) = "function" THEN FnApply(fallback.fn, key)
  ELSE IF fallback = Null THEN Throw("TypeError")
  ELSE IF /\ typeof(fallback) = "object"
          /\ HasProp(fallback, "env")
          /\ typeof(GetProp(fallback, "env")) = "object"
       THEN IF GetProp(fallback, "env") = Null THEN Throw("TypeError")
            ELSE getFallbackValue(
                   GetProp(GetProp(fallback, "env"), PropName(Read(procEnv, ModeKey))),
                   key)
  ELSE IF typeof(fallback) = "object" /\ HasProp(fallback, key)
       THEN getFallbackValue(GetProp(fallback, key), key)
  ELSE IF ~CanConvertToString(fallback) THEN Throw("TypeError")
  ELSE Throw("InvalidFallbackValue")

\* Mutant of getEnvValue: the hit is decided by the truthiness of env[key]
\* instead of `key in env`.
getEnvValue_TruthyHit(o, key) ==
  LET env == Env(o)
      fallback == o.fallback
  IN IF Truthy(Read(env, key))
       THEN [out |-> Return(Read(env, key)), warn |-> <<>>]
     ELSE IF ~Truthy(fallback)
       THEN [out |-> Throw("NotFound"),
             warn |-> logger(o, "Environment variable " \o key \o " not found")]
     ELSE LET fallbackValue == getFallbackValue(fallback, key)
          IN IF fallbackValue.kind = "throw"
               THEN [out |-> fallbackValue, warn |-> <<>>]
             ELSE IF Truthy(fallbackValue.val)
               THEN [out |-> fallbackValue,
                     warn |-> logger(o, "Environment variable " \o key
                                \o " not found, using fallback: "
                                \o StringOf(fallbackValue.val))]
             ELSE [out |-> Throw("InvalidFallback"),
                   warn |-> logger(o, "Invalid fallback value for environment variable "
                                \o key)]

\* Mutant of getEnvValue: a miss without fallback throws only when logging is
\* on, and yields undefined otherwise.
getEnvValue_ThrowOnlyIfLogged(o, key) ==
  LET env == Env(o)
      fallback == o.fallback
  IN IF In(env, key)
       THEN [out |-> Return(Read(env, key)), warn |-> <<>>]
     ELSE IF ~Truthy(fallback)
       THEN IF Truthy(o.log)
              THEN [out |-> Throw("NotFound"),
                    warn |-> logger(o, "Environment variable " \o key \o " not found")]
              ELSE [out |-> Return(Undef), warn |-> <<>>]
     ELSE LET fallbackValue == getFallbackValue(fallback, key)
          IN IF fallbackValue.kind = "throw"
               THEN [out |-> fallbackValue, warn |-> <<>>]
             ELSE IF Truthy(fallbackValue.val)
               THEN [out |-> fallbackValue,
                     warn |-> logger(o, "Environment variable " \o key
                                \o " not found, using fallback: "
                                \o StringOf(fallbackValue.val))]
             ELSE [out |-> Throw("InvalidFallback"),
                   warn |-> logger(o, "Invalid fallback value for environment variable "
                                \o key)]

\* getEnvValue(key): the outcome and the messages logged
getEnvValue(o, key) ==
  LET env == Env(o)
      fallback == o.fallback
  IN IF In(env, key)
       THEN [out |-> Return(Read(env, key)), warn |-> <<>>]
     ELSE IF ~Truthy(fallback)
       THEN [out |-> Throw("NotFound"),
             warn |-> logger(o, "Environment variable " \o key \o " not found")]
     ELSE LET fallbackValue == getFallbackValue(fallback, key)
          IN IF fallbackValue.kind = "throw"
               THEN [out |-> fallbackValue, warn |-> <<>>]
             ELSE IF Truthy(fallbackValue.val)
               THEN [out |-> fallbackValue,
                     warn |-> logger(o, "Environment variable " \o key
                                \o " not found, using fallback: "
                                \o StringOf(fallbackValue.val))]
             ELSE [out |-> Throw("InvalidFallback"),
                   warn |-> logger(o, "Invalid fallback value for environment variable "
                                \o key)]

\* setEnvValue(key, value) on the store the options name
setEnvValue(o, key, s) ==
  IF o.env = "custom"
    THEN /\ custEnv' = Write(custEnv, key, s)
         /\ UNCHANGED procEnv
    ELSE /\ procEnv' = Write(procEnv, key, s)
         /\ UNCHANGED custEnv

Constructed(h) == opts[h] # NoHandle

\* The keys a handle is driven with.
KeysOf(h) == IF opts[h] \in WideOptions THEN AllKeys ELSE Keys

Op(h, op, key, arg, r) ==
  [h |-> h, op |-> op, key |-> key, arg |-> arg, out |-> r.out, warn |-> r.warn]

(***************************************************************************)
(* Operations                                                              *)
(***************************************************************************)
\* Mutant of Get: what the fallback yields for a missing key is kept in the store.
Get_PersistFallback(h, key) ==
  /\ Constructed(h)
  /\ ~opts[h].lazy
  /\ last' = Op(h, "get", key, Undef, getEnvValue(opts[h], key))
  /\ IF /\ ~In(Env(opts[h]), key)
        /\ Truthy(opts[h].fallback)
        /\ getFallbackValue(opts[h].fallback, key).kind = "return"
       THEN setEnvValue(opts[h], key,
                        StringOf(getFallbackValue(opts[h].fallback, key).val))
       ELSE UNCHANGED <<procEnv, custEnv>>
  /\ UNCHANGED <<opts, held>>

\* Proxy get trap of an eager handle: env.KEY
Get(h, key) ==
  /\ Constructed(h)
  /\ ~opts[h].lazy
  /\ last' = Op(h, "get", key, Undef, getEnvValue(opts[h], key))
  /\ UNCHANGED <<procEnv, custEnv, opts, held>>

\* Mutant of GetAccessor: the value is resolved when the accessor is obtained.
GetAccessor_Eager(h, key) ==
  /\ Constructed(h)
  /\ opts[h].lazy
  /\ held' = held \cup {<<h, key>>}
  /\ last' = Op(h, "accessor", key, Undef, getEnvValue(opts[h], key))
  /\ UNCHANGED <<procEnv, custEnv, opts>>

\* Proxy get trap of a lazy handle: env.KEY yields the accessor, a closure over
\* the handle and the key.  held is the accessors the caller has obtained; each
\* stays callable.
GetAccessor(h, key) ==
  /\ Constructed(h)
  /\ opts[h].lazy
  /\ held' = held \cup {<<h, key>>}
  /\ last' = Op(h, "accessor", key, Undef,
                [out |-> Return(Fn("accessor")), warn |-> <<>>])
  /\ UNCHANGED <<procEnv, custEnv, opts>>

\* Mutant of Call: what the fallback yields for a missing key is kept in the store.
Call_PersistFallback(h, key, value) ==
  /\ <<h, key>> \in held
  /\ UNCHANGED <<opts, held>>
  /\ IF value # Undef
       THEN /\ setEnvValue(opts[h], key, value.s)
            /\ last' = Op(h, "call", key, value, getEnvValue(opts[h], key)')
       ELSE /\ last' = Op(h, "call", key, value, getEnvValue(opts[h], key))
            /\ IF /\ ~In(Env(opts[h]), key)
                  /\ Truthy(opts[h].fallback)
                  /\ getFallbackValue(opts[h].fallback, key).kind = "return"
                 THEN setEnvValue(opts[h], key,
                        StringOf(getFallbackValue(opts[h].fallback, key).val))
                 ELSE UNCHANGED <<procEnv, custEnv>>

\* An accessor of a lazy handle called: env.KEY() or env.KEY(value)
Call(h, key, value) ==
  /\ <<h, key>> \in held
  /\ UNCHANGED <<opts, held>>
  /\ IF value # Undef
       THEN setEnvValue(opts[h], key, value.s)
       ELSE UNCHANGED <<procEnv, custEnv>>
  /\ last' = Op(h, "call", key, value, getEnvValue(opts[h], key)')

\* Mutant of Set: the type check comes after the write of String(value).
Set_CheckAfterWrite(h, key, value) ==
  /\ Constructed(h)
  /\ IF ~opts[h].lazy
       THEN /\ setEnvValue(opts[h], key, StringOf(value))
            /\ last' = Op(h, "set", key, value,
                          [out |-> IF typeof(value) # "string"
                                     THEN Throw("TypeCheck")
                                     ELSE Return(Bool(TRUE)),
                           warn |-> <<>>])
       ELSE /\ last' = Op(h, "set", key, value,
                          [out |-> Throw("InvalidAccessMode"), warn |-> <<>>])
            /\ UNCHANGED <<procEnv, custEnv>>
  /\ UNCHANGED <<opts, held>>

\* Mutant of Set: the lazy check is missing, so a lazy handle assigns too.
Set_NoLazyCheck(h, key, value) ==
  /\ Constructed(h)
  /\ IF typeof(value) # "string"
       THEN /\ last' = Op(h, "set", key, value,
                          [out |-> Throw("TypeCheck"), warn |-> <<>>])
            /\ UNCHANGED <<procEnv, custEnv>>
       ELSE /\ setEnvValue(opts[h], key, value.s)
            /\ last' = Op(h, "set", key, value,
                          [out |-> Return(Bool(TRUE)), warn |-> <<>>])
  /\ UNCHANGED <<opts, held>>

\* Proxy set trap: env.KEY = value
Set(h, key, value) ==
  /\ Constructed(h)
  /\ IF ~opts[h].lazy
       THEN IF typeof(value) # "string"
              THEN /\ last' = Op(h, "set", key, value,
                                 [out |-> Throw("TypeCheck"), warn |-> <<>>])
                   /\ UNCHANGED <<procEnv, custEnv>>
              ELSE /\ setEnvValue(opts[h], key, value.s)
                   /\ last' = Op(h, "set", key, value,
                                 [out |-> Return(Bool(TRUE)), warn |-> <<>>])
       ELSE /\ last' = Op(h, "set", key, value,
                          [out |-> Throw("InvalidAccessMode"), warn |-> <<>>])
            /\ UNCHANGED <<procEnv, custEnv>>
  /\ UNCHANGED <<opts, held>>

\* The caller sets the mode in a store directly: process.env.NODE_ENV = 'development'
SetMode(store, mode) ==
  /\ \/ /\ store = "process"
        /\ procEnv' = Write(procEnv, ModeKey, mode)
        /\ UNCHANGED custEnv
     \/ /\ store = "custom"
        /\ \E h \in Handles : Constructed(h) /\ opts[h].env = "custom"
        /\ custEnv' = Write(custEnv, ModeKey, mode)
        /\ UNCHANGED procEnv
  /\ last' = [h |-> 0, op |-> "setMode", key |-> ModeKey, arg |-> Str(mode),
              out |-> Return(Undef), warn |-> <<>>]
  /\ UNCHANGED <<opts, held>>

NoOp == [h |-> 0, op |-> "none", key |-> "", arg |-> Undef,
         out |-> Return(Undef), warn |-> <<>>]

\* No accessor obtained yet.
NoAccessor == {}

\* The two stores at the start: with the env option the handle wraps the plain
\* object custEnv and process.env holds at most the mode.
InitStores(env) ==
  IF env = "custom"
    THEN /\ custEnv \in PlainStores
         /\ procEnv \in ModeStores
    ELSE /\ custEnv = PlainStore(<<>>)
         /\ procEnv \in Stores

\* One handle constructed by createTypedEnv(options), over process.env, an
\* object literal, a parsed object or an object with a prototype of the caller.
Init ==
  /\ opts \in [Handles -> Options \cup {NoHandle}]
  /\ Constructed(1)
  /\ ~Constructed(2)
  /\ \/ InitStores(opts[1].env)
     \/ /\ opts[1] \in ParsedOptions
        /\ custEnv \in ParsedStores \cup InheritingStores
        /\ procEnv = ProcessStore(<<>>)
  /\ held = NoAccessor
  /\ last = NoOp

Next ==
  \/ \E h \in Handles : \E key \in KeysOf(h) : Get(h, key)
  \/ \E h \in Handles : \E key \in KeysOf(h) : GetAccessor(h, key)
  \/ \E h \in Handles : \E key \in KeysOf(h), value \in CallArgs : Call(h, key, value)
  \/ \E h \in Handles : \E key \in KeysOf(h), value \in SetArgs : Set(h, key, value)
  \/ \E store \in {"process", "custom"}, mode \in Modes : SetMode(store, mode)

Spec == Init /\ [][Next]_vars

\* Two handles constructed over the same store, of any discipline: the first
\* without fallback, the second with a literal fallback.
SharedOptions == [env : {"process", "custom"}, lazy : BOOLEAN,
                  fallback : {Undef, Str("fallback_value")},
                  log : {Undef}]

InitShared ==
  /\ opts \in [Handles -> SharedOptions]
  /\ opts[1].env = opts[2].env
  /\ opts[1].fallback = Undef
  /\ opts[2].fallback = Str("fallback_value")
  /\ InitStores(opts[1].env)
  /\ held = NoAccessor
  /\ last = NoOp

SpecShared == InitShared /\ [][Next]_vars

(***************************************************************************)
(* Properties                                                              *)
(***************************************************************************)
\* The store holds a string at the key: a key of its own or of the prototype
\* the caller gave it.  A name of Object.prototype is no key of the store.
Present(store, key) == key \in DOMAIN store.own \/ key \in DOMAIN store.proto

\* The entry a mapping of the options holds at a name, undefined when it holds none.
Entry(m, name) ==
  IF name \in DOMAIN OwnProps(m) THEN OwnProps(m)[name] ELSE Undef

\* A read: an eager property read, or an accessor called with no argument.
IsRead(l) == l.op = "get" \/ (l.op = "call" /\ l.arg = Undef)

\* The store the options name, after the step.
EnvNext(o) == IF o.env = "custom" THEN custEnv' ELSE procEnv'

\* A write that went through: an eager assignment or an accessor called with a string.
IsWrite(l) ==
  \/ l.op = "set" /\ l.out = Return(Bool(TRUE))
  \/ l.op = "call" /\ l.arg # Undef

\* C1: a read of a key present in the store (the empty string included) returns
\* exactly the stored string, whatever the fallback and the log option.
C1_HitPrecedence ==
  [][ (IsRead(last') /\ Present(Env(opts[last'.h]), last'.key))
        => /\ last'.out = Return(Read(Env(opts[last'.h]), last'.key))
           /\ typeof(last'.out.val) = "string" ]_vars

\* C1 witness: a lazy read of a key stored as "" with a fallback function and
\* logging on returned "".
C1_Witness ==
  /\ last.op = "call" /\ last.arg = Undef
  /\ Present(Env(opts[last.h]), last.key)
  /\ Read(Env(opts[last.h]), last.key) = Str("")
  /\ opts[last.h].fallback = Fn("suffix")
  /\ opts[last.h].log = Bool(TRUE)
  /\ last.out = Return(Str(""))

\* C2 (as claimed): with no fallback configured, a read (eager, or lazy with no
\* argument) of a key absent from the store fails with NotFound.
C2_NotFound ==
  [][ ( /\ IsRead(last')
        /\ ~Present(Env(opts[last'.h]), last'.key)
        /\ opts[last'.h].fallback = Undef )
        => last'.out = Throw("NotFound") ]_vars

\* C3 (as claimed): with a literal string fallback s, the empty string included,
\* a read of a key absent from the store returns s.
C3_LiteralFallback ==
  [][ ( /\ IsRead(last')
        /\ ~Present(Env(opts[last'.h]), last'.key)
        /\ typeof(opts[last'.h].fallback) = "string" )
        => last'.out = Return(opts[last'.h].fallback) ]_vars

\* C4 (as claimed): with a function fallback fn, a read of a key absent from the
\* store returns fn(key), the empty string included.
C4_FunctionFallback ==
  [][ ( /\ IsRead(last')
        /\ ~Present(Env(opts[last'.h]), last'.key)
        /\ typeof(opts[last'.h].fallback) = "function" )
        => last'.out = FnApply(opts[last'.h].fallback.fn, last'.key) ]_vars

\* A per-key mapping that is not mode-scoped.
IsMapping(f) ==
  /\ typeof(f) = "object"
  /\ typeof(Entry(f, "env")) # "object"

\* A mode-scoped fallback: { env: { development, test, production } }.
IsModeScoped(f) ==
  /\ typeof(f) = "object"
  /\ typeof(Entry(f, "env")) = "object"

\* C5 (as claimed): with a per-key mapping m, a read of a key absent from the
\* store returns m[key] when key is in m and fails when it is not.
C5_MappingFallback ==
  [][ ( /\ IsRead(last')
        /\ ~Present(Env(opts[last'.h]), last'.key)
        /\ IsMapping(opts[last'.h].fallback) )
        => IF Entry(opts[last'.h].fallback, last'.key) # Undef
             THEN last'.out = Return(Entry(opts[last'.h].fallback, last'.key))
             ELSE last'.out.kind = "throw" ]_vars

\* C6 (as claimed): a mode-scoped fallback resolves an absent key against the
\* entry named by the mode field of the store the handle wraps.
C6_ModeOfHandleStore ==
  [][ ( /\ IsRead(last')
        /\ ~Present(Env(opts[last'.h]), last'.key)
        /\ IsModeScoped(opts[last'.h].fallback) )
        => LET entry == Entry(Entry(opts[last'.h].fallback, "env"),
                              PropName(Read(Env(opts[last'.h]), ModeKey)))
           IN (typeof(entry) = "string" /\ Truthy(entry))
                => last'.out = Return(entry) ]_vars

\* C7 (as claimed): on an eager handle, after K = v with a string v the store
\* holds v at K, and an eager read of K that follows returns v.
C7_EagerWriteRoundTrip ==
  [][ /\ ( /\ last'.op = "set"
           /\ ~opts[last'.h].lazy
           /\ typeof(last'.arg) = "string" )
        => /\ last'.out = Return(Bool(TRUE))
           /\ Read(EnvNext(opts[last'.h]), last'.key) = last'.arg
      /\ ( /\ last.op = "set"
           /\ last.out = Return(Bool(TRUE))
           /\ last'.op = "get"
           /\ last'.h = last.h
           /\ last'.key = last.key )
        => last'.out = Return(last.arg) ]_vars

\* C8: on an eager handle, assigning a non-string fails with TypeCheck and
\* leaves the stores as they were.
C8_TypeCheckKeepsStore ==
  [][ ( /\ last'.op = "set"
        /\ ~opts[last'.h].lazy
        /\ typeof(last'.arg) # "string" )
        => /\ last'.out = Throw("TypeCheck")
           /\ procEnv' = procEnv
           /\ custEnv' = custEnv ]_vars

\* C8 witness: assigning 123 to an absent key failed with TypeCheck and the key
\* is still absent.
C8_Witness ==
  /\ last.op = "set"
  /\ last.arg = Num(123)
  /\ last.out = Throw("TypeCheck")
  /\ last.key = "A"
  /\ ~Present(Env(opts[last.h]), last.key)

\* C9 (as claimed): on a lazy handle, K(v) with a string v writes v to the store
\* at K and returns v, and a call K() that follows returns v.
C9_LazyWriteRead ==
  [][ /\ ( last'.op = "call" /\ last'.arg # Undef )
        => /\ Read(EnvNext(opts[last'.h]), last'.key) = last'.arg
           /\ last'.out = Return(last'.arg)
      /\ ( /\ last.op = "call" /\ last.arg # Undef
           /\ last'.op = "call" /\ last'.arg = Undef
           /\ last'.h = last.h
           /\ last'.key = last.key )
        => last'.out = Return(last.arg) ]_vars

\* C10: on a lazy handle, an assignment fails with InvalidAccessMode, whatever
\* the key and the value, and leaves the stores as they were.
C10_LazyAssignmentRejected ==
  [][ ( last'.op = "set" /\ opts[last'.h].lazy )
        => /\ last'.out = Throw("InvalidAccessMode")
           /\ procEnv' = procEnv
           /\ custEnv' = custEnv ]_vars

\* C10 witness: assigning a string to an absent key of a lazy handle failed with
\* InvalidAccessMode and the key is still absent.
C10_Witness ==
  /\ last.op = "set"
  /\ opts[last.h].lazy
  /\ typeof(last.arg) = "string"
  /\ last.out = Throw("InvalidAccessMode")
  /\ last.key = "A"
  /\ ~Present(Env(opts[last.h]), last.key)

\* A read of a key the store does not hold.
IsMiss(l) == IsRead(l) /\ ~Present(Env(opts[l.h]), l.key)

\* An operation through a handle.
IsHandleOp(l) == l.op \in {"get", "accessor", "call", "set"}

\* C11 (as claimed): with log true a read that misses the store logs exactly
\* once, however it ends, and a read that hits logs nothing; with log false or
\* absent nothing is ever logged.
C11_LogCount ==
  [][ IsHandleOp(last')
        => /\ (opts[last'.h].log = Bool(TRUE) /\ IsRead(last'))
                => Len(last'.warn) = (IF IsMiss(last') THEN 1 ELSE 0)
           /\ ~Truthy(opts[last'.h].log) => last'.warn = <<>> ]_vars

\* C12 (as claimed): with a mode-scoped log option, a read that misses the store
\* logs exactly when the mode field of the handle's store is a key of the log
\* mapping whose value is true.
C12_ModeScopedLog ==
  [][ (IsMiss(last') /\ typeof(opts[last'.h].log) = "object")
        => LET mode == Read(Env(opts[last'.h]), ModeKey)
           IN (last'.warn # <<>>)
                <=> /\ typeof(mode) = "string"
                    /\ Entry(opts[last'.h].log, mode.s) = Bool(TRUE) ]_vars

\* C13: obtaining the accessor of a lazy handle resolves nothing: it returns the
\* accessor, logs nothing and leaves the stores alone, even for an absent key
\* without fallback; a call with no argument resolves against the store as it
\* is at the call, so it returns the string the store holds then at the key,
\* whatever the store held when the accessor was obtained.
C13_LazyDeferred ==
  [][ /\ last'.op = "accessor"
        => /\ last'.out = Return(Fn("accessor"))
           /\ last'.warn = <<>>
           /\ procEnv' = procEnv
           /\ custEnv' = custEnv
      /\ ( /\ last'.op = "call" /\ last'.arg = Undef
           /\ Present(EnvNext(opts[last'.h]), last'.key) )
        => last'.out = Return(Read(EnvNext(opts[last'.h]), last'.key)) ]_vars

\* C13 witness: the accessor of a key absent from the store was obtained on a
\* handle without fallback that logs; nothing failed and nothing was logged.
C13_Witness ==
  /\ last.op = "accessor"
  /\ last.key = "A"
  /\ ~Present(Env(opts[last.h]), last.key)
  /\ opts[last.h].fallback = Undef
  /\ opts[last.h].log = Bool(TRUE)
  /\ <<last.h, last.key>> \in held
  /\ last.out = Return(Fn("accessor"))
  /\ last.warn = <<>>

\* C14 (as claimed): two handles over the same store.  A write through either
\* handle is in the store both handles read; a read of K through either handle
\* right after a write of K returns the written value; any other operation
\* through a handle leaves K as it is in the store of both; and a read of a key
\* the store holds returns the stored value, never a fallback.
C14_SharedLastWriteWins ==
  [][ IsHandleOp(last')
        => /\ IsWrite(last')
                => \A g \in Handles : Read(EnvNext(opts[g]), last'.key) = last'.arg
           /\ (IsWrite(last) /\ IsRead(last') /\ last'.key = last.key)
                => last'.out = Return(last.arg)
           /\ \A g \in Handles, k \in Keys :
                ~(IsWrite(last') /\ last'.key = k)
                  => Read(EnvNext(opts[g]), k) = Read(Env(opts[g]), k)
           /\ (IsRead(last') /\ Present(Env(opts[last'.h]), last'.key))
                => last'.out = Return(Read(Env(opts[last'.h]), last'.key)) ]_vars

\* C15: an operation ends the same under every log policy: a read or a call has
\* the outcome the resolver gives in the same store with the log option
\* replaced by any other, an assignment has the outcome the discipline and the
\* type of the value give, and the stores after the operation are the stores
\* the handle leaves with the log option replaced by any other: written by
\* setEnvValue when the write went through, untouched otherwise.
C15_LogDoesNotDecide ==
  [][ IsHandleOp(last')
        => /\ \A g \in {last'.h}, k \in {last'.key}, l \in Logs :
                last'.op \in {"get", "call"}
                  => last'.out = getEnvValue([opts[g] EXCEPT !.log = l], k)'.out
           /\ last'.op = "set"
                => last'.out = IF opts[last'.h].lazy THEN Throw("InvalidAccessMode")
                               ELSE IF typeof(last'.arg) # "string" THEN Throw("TypeCheck")
                               ELSE Return(Bool(TRUE))
           /\ IF IsWrite(last')
                THEN \A l \in Logs :
                       setEnvValue([opts[last'.h] EXCEPT !.log = l],
                                   last'.key, last'.arg.s)
                ELSE UNCHANGED <<procEnv, custEnv>> ]_vars

\* C15 witness: a read through a logging handle missed the store, logged and
\* returned the fallback, which is what the resolver gives without the log
\* option, where it logs nothing.
C15_Witness ==
  /\ last.op = "get"
  /\ opts[last.h].log = Bool(TRUE)
  /\ last.warn # <<>>
  /\ last.out = Return(Str("fallback_value"))
  /\ getEnvValue([opts[last.h] EXCEPT !.log = Undef], last.key).out = last.out
  /\ getEnvValue([opts[last.h] EXCEPT !.log = Undef], last.key).warn = <<>>

\* C16 (as claimed): no operation through a handle, on any key, changes the mode
\* field of a store.
C16_ModeNeverWritten ==
  [][ IsHandleOp(last')
        => /\ Read(procEnv', ModeKey) = Read(procEnv, ModeKey)
           /\ Read(custEnv', ModeKey) = Read(custEnv, ModeKey) ]_vars

\* C16 (amended): an operation through a handle changes the mode field of no
\* store, unless it is a write whose key is the mode key itself.
C16_ModeKeptUnlessWritten ==
  [][ (IsHandleOp(last') /\ ~(IsWrite(last') /\ last'.key = ModeKey))
        => /\ Read(procEnv', ModeKey) = Read(procEnv, ModeKey)
           /\ Read(custEnv', ModeKey) = Read(custEnv, ModeKey) ]_vars

\* C16 witness: an eager write to key A went through in a store whose mode field
\* holds "production".
C16_Witness ==
  /\ last.op = "set"
  /\ last.out = Return(Bool(TRUE))
  /\ last.key = "A"
  /\ Read(Env(opts[last.h]), last.key) = last.arg
  /\ Read(Env(opts[last.h]), ModeKey) = Str("production")

\* C17 (as claimed): with a mode-scoped fallback, a read of a key absent from the
\* store fails when the mode of the handle's store is absent or has no entry,
\* and when the entry of that mode is a mapping that lacks the key.
C17_UnmatchedMode ==
  [][ (IsMiss(last') /\ IsModeScoped(opts[last'.h].fallback))
        => LET entry == Entry(Entry(opts[last'.h].fallback, "env"),
                              PropName(Read(Env(opts[last'.h]), ModeKey)))
           IN /\ entry = Undef => last'.out.kind = "throw"
              /\ (typeof(entry) = "object" /\ Entry(entry, last'.key) = Undef)
                   => last'.out.kind = "throw" ]_vars

\* C18: a read repeated right after the same read, through the same handle and
\* of the same key, has the same outcome: value or error.  (A read changes
\* nothing but the record of the last operation, so the repeated read starts
\* from the state the read left.)
C18_ReadIdempotent ==
  [][ ( /\ IsRead(last) /\ IsRead(last')
        /\ last'.h = last.h
        /\ last'.key = last.key )
        => last'.out = last.out ]_vars

\* C18 witness: a read of an absent key failed on a fallback function that
\* yields the empty string, and the key is still absent for the next read.
C18_Witness ==
  /\ last.op = "get"
  /\ opts[last.h].fallback = Fn("empty")
  /\ last.out = Throw("InvalidFallback")
  /\ ~Present(Env(opts[last.h]), last.key)

\* C19: a store changes only by a write that went through, and at the written
\* key alone: the write removes no key, adds at most the written key, leaves
\* every other key as it was and leaves the other store alone; every other
\* operation through a handle, a read that used a fallback included, leaves
\* both stores as they were.
C19_StoreFrame ==
  [][ IsHandleOp(last')
        => IF IsWrite(last')
             THEN /\ DOMAIN Env(opts[last'.h]).own \subseteq DOMAIN EnvNext(opts[last'.h]).own
                  /\ DOMAIN EnvNext(opts[last'.h]).own
                       \subseteq DOMAIN Env(opts[last'.h]).own \cup {last'.key}
                  /\ \A k \in DOMAIN Env(opts[last'.h]).own \ {last'.key} :
                       EnvNext(opts[last'.h]).own[k] = Env(opts[last'.h]).own[k]
                  /\ EnvNext(opts[last'.h]).proto = Env(opts[last'.h]).proto
                  /\ IF opts[last'.h].env = "custom"
                       THEN procEnv' = procEnv
                       ELSE custEnv' = custEnv
             ELSE /\ procEnv' = procEnv
                  /\ custEnv' = custEnv ]_vars

\* C19 witness: a lazy read of an absent key returned the value of the fallback
\* function and the key is still absent from the store.
C19_Witness ==
  /\ last.op = "call" /\ last.arg = Undef
  /\ last.out = Return(Str("A_fallback"))
  /\ ~Present(Env(opts[last.h]), last.key)

====
